---- MODULE Spec2Model ----
(***************************************************************************)
(* Image Fraud Detection API: the ImageAnalyzer dispatcher of              *)
(* utils/fraud_utils.py (validation gate, web-match probe, classifier      *)
(* adapter, EXIF inspector, lazily created service clients) and the HTTP   *)
(* handler of app.py that maps its outcome to a status code.               *)
(*                                                                         *)
(* Values.  An exception is a record [type, msg]; msg is the list of the   *)
(* fragments the f-strings concatenate, outermost prefix first.  A call    *)
(* ends in Return(v) or Raise(e).  A byte string and a decoded str are     *)
(* sequences of byte values.                                               *)
(***************************************************************************)
EXTENDS Integers, Sequences, FiniteSets, TLC

VARIABLES
    _vision_client,   \* ImageAnalyzer._vision_client: None or the client object
    _vertex_client,   \* ImageAnalyzer._vertex_client: None or the client object
    constructed,      \* history: the client objects each constructor has returned
    req,              \* per request thread: position, inputs, locals, outcome
    call              \* one call of a pure method: argument, position, outcome

vars == <<_vision_client, _vertex_client, constructed, req, call>>

\* self._vision_client = None; a client object is named by a positive number
None == 0

\* ------------------------------------------------------------------ bounds
NumRequests == 2      \* request threads in one process
SmallChars == 4       \* short payloads: 0..SmallChars base64 data characters
Margin == 4           \* payload lengths this close to the size limit, either side
MaxMatches == 2       \* length of a full / partial match list
MaxTagLen == 2        \* bytes in an EXIF tag value

\* ------------------------------------------------------- program constants
MAX_IMAGE_SIZE == 1500000
HTTP_OK == 200
HTTP_BAD_REQUEST == 400
HTTP_SERVER_ERROR == 500

\* The base64 data characters of a payload of exactly MAX_IMAGE_SIZE bytes
LimitChars == (MAX_IMAGE_SIZE \div 3) * 4

\* --------------------------------------------------------------- outcomes
Return(v) == [kind |-> "return", value |-> v]
Raise(e) == [kind |-> "raise", exc |-> e]
ValueError(msg) == [type |-> "ValueError", msg |-> msg]
\* f"{prefix}{str(e)}" raised as a ValueError
Wrap(prefix, e) == ValueError(<<prefix>> \o e.msg)

\* ------------------------------------------------------------ the payload
\* The request's base64 text, run-length encoded: `chars` characters of the
\* base64 alphabet, then `pad` '=' characters, with `nl` newline / carriage
\* return characters and `junk` other characters outside the alphabet strewn
\* in.  `content` is what the decoded bytes are, as the image library sees
\* them: "garbage" (not an image), "broken" (a recognised container that fails
\* verification) or "ok", and the EXIF block the image carries.
NoExif == [present |-> FALSE]

Garbage == [format |-> "garbage", exif |-> NoExif]

Text(chars, pad, nl, junk, content) ==
    [chars |-> chars, pad |-> pad, nl |-> nl, junk |-> junk, content |-> content]

\* cleaned_string = base64_string.replace('\n', '').replace('\r', '').strip()
Clean(base64_string) == [base64_string EXCEPT !.nl = 0]

\* base64.b64decode(s): characters outside the alphabet are discarded; the
\* data characters must fill whole quads once the padding is counted.
b64decode(s) ==
    LET n == s.chars
        rem == n % 4
    IN  IF rem = 1
        THEN Raise([type |-> "binascii.Error",
                    msg |-> <<"Invalid base64-encoded string">>])
        ELSE IF (rem = 2 /\ s.pad < 2) \/ (rem = 3 /\ s.pad < 1)
        THEN Raise([type |-> "binascii.Error", msg |-> <<"Incorrect padding">>])
        ELSE Return([size |-> 3 * (n \div 4) + (IF rem = 0 THEN 0 ELSE rem - 1),
                     content |-> s.content])

\* The limit itself rejected.
SizeExceedsGE(size) == size >= MAX_IMAGE_SIZE

\* if size > VisionConfig.MAX_IMAGE_SIZE
SizeExceeds(size) == size > MAX_IMAGE_SIZE

\* Image.open(...); pil_image.verify(); Image.open(...) with the except clause
\* of the inner try.  `ops` lists the image-library calls made.
validate_format(image_data) ==
    IF image_data.content.format = "garbage"
    THEN [ops |-> <<"Image.open">>,
          out |-> Raise(ValueError(<<"Invalid image format: ",
                                     "cannot identify image file">>))]
    ELSE IF image_data.content.format = "broken"
    THEN [ops |-> <<"Image.open", "verify">>,
          out |-> Raise(ValueError(<<"Invalid image format: ", "broken data stream">>))]
    ELSE [ops |-> <<"Image.open", "verify", "Image.open">>,
          out |-> Return([image_data |-> image_data,
                          pil_image |-> image_data.content])]

\* Lines 62-77: the size check, then the format check.
validate_decoded(image_data) ==
    IF SizeExceeds(image_data.size)
    THEN [ops |-> <<>>,
          out |-> Raise(ValueError(<<"Image size exceeds maximum allowed size">>))]
    ELSE validate_format(image_data)

\* validate_image: everything raised inside the outer try is raised again as
\* ValueError("Invalid image data: ...").
validate_image(base64_string) ==
    LET dec == b64decode(Clean(base64_string))
    IN  IF dec.kind = "raise"
        THEN [ops |-> <<>>, out |-> Raise(Wrap("Invalid image data: ", dec.exc))]
        ELSE LET v == validate_decoded(dec.value)
             IN  IF v.out.kind = "raise"
                 THEN [ops |-> v.ops,
                       out |-> Raise(Wrap("Invalid image data: ", v.out.exc))]
                 ELSE v

\* The error taxonomy, read off the message an exception carries.
ErrorKind(e) ==
    LET m == e.msg
    IN  IF m[1] = "Invalid image data: "
        THEN IF m[2] = "Image size exceeds maximum allowed size" THEN "PayloadTooLarge"
             ELSE IF m[2] = "Invalid image format: " THEN "InvalidImageFormat"
             ELSE "InvalidPayload"
        ELSE IF m[1] = "Web detection failed: " THEN "WebDetectionFailed"
        ELSE IF m[1] = "Classification failed: " THEN "ClassificationFailed"
        ELSE IF m[1] = "Invalid analysis type: " THEN "UnsupportedAnalysisType"
        ELSE "Other"

ValidationKinds == {"InvalidPayload", "PayloadTooLarge", "InvalidImageFormat"}

\* ------------------------------------------------------ web-match probe
\* Any match, full or partial, counted as fraud.
is_fraud_any_match(web_detection) ==
    Len(web_detection.full_matching_images) > 0
        \/ Len(web_detection.partial_matching_images) > 0

\* is_fraud = bool(web_detection.full_matching_images)
is_fraud(web_detection) == Len(web_detection.full_matching_images) > 0

\* [img.url for img in images]
urls(images) == [i \in 1..Len(images) |-> images[i].url]

\* Lines 90-99: the result built from the service's web_detection annotation.
web_result(web_detection) ==
    LET fraud == is_fraud(web_detection)
    IN  [is_fraud |-> fraud,
         matching_images_count |->
             IF fraud THEN Len(web_detection.full_matching_images) ELSE 0,
         full_matching_images |-> urls(web_detection.full_matching_images),
         partial_matching_images |-> urls(web_detection.partial_matching_images)]

\* Lines 100-102: except Exception as e: raise ValueError(f"Web detection failed: ...")
web_except(e) == Raise(Wrap("Web detection failed: ", e))

\* Lines 85-102 once the client is at hand: `remote` is how the service call ended.
process_web_detection(remote) ==
    IF remote.kind = "raise" THEN web_except(remote.exc)
    ELSE Return(web_result(remote.value))

\* --------------------------------------------------------- classification
\* A repeated field of the prediction message, and list(...) of it.
Repeated(s) == [repeated |-> s]
list(x) == x.repeated

\* Lines 129-143: each prediction becomes a dict whose three repeated fields
\* are lists; whatever else the prediction holds (`extra`) is kept as it is.
classify_result(response) ==
    [deployed_model_id |-> response.deployed_model_id,
     model_version_id |-> response.model_version_id,
     model_display_name |-> response.model_display_name,
     predictions |->
         [i \in 1..Len(response.predictions) |->
             [confidences |-> list(response.predictions[i].confidences),
              displayNames |-> list(response.predictions[i].displayNames),
              ids |-> list(response.predictions[i].ids),
              extra |-> response.predictions[i].extra]]]

\* Lines 144-146
classify_except(e) == Raise(Wrap("Classification failed: ", e))

\* Lines 106-146 once the client is at hand.
classify_image(remote) ==
    IF remote.kind = "raise" THEN classify_except(remote.exc)
    ELSE Return(classify_result(remote.value))

\* ------------------------------------------------------ metadata inspector
\* bytes.decode('utf-8', 'ignore'): the bytes that are no UTF-8 are dropped.
\* Byte values below 128 are ASCII; 255 never occurs in UTF-8.
IsUtf8(b) == b < 128
decode_ignore(bytes) == SelectSeq(bytes, IsUtf8)

Bytes(v) == [type |-> "bytes", v |-> v]

\* A tag value piexif did not load as bytes (a tag stored with a numeric type).
NotBytes == [type |-> "int", v |-> <<>>]

\* ifd.get(tag, b'').decode('utf-8', 'ignore')
tag_str(ifd, tag) ==
    LET v == IF tag \in DOMAIN ifd THEN ifd[tag] ELSE Bytes(<<>>)
    IN  IF v.type = "bytes" THEN Return(decode_ignore(v.v))
        ELSE Raise([type |-> "AttributeError", msg |-> <<"object has no attribute 'decode'">>])

\* piexif.load(pil_image.info['exif'])
piexif_load(exif) ==
    IF exif.loadable THEN Return([zeroth |-> exif.zeroth, Exif |-> exif.Exif])
    ELSE Raise([type |-> "InvalidImageDataError", msg |-> <<"Given data isn't EXIF">>])

Warning(text, arg) == [text |-> text, arg |-> arg]

NoExifWarning == Warning("No EXIF data found in image", <<>>)
MismatchWarning == Warning("Original date and digitized date do not match.", <<>>)
SoftwareWarning(software) == Warning("Image edited with software: ", software)

\* The timestamp warning without the two presence tests.
exif_warnings_unguarded(software, datetime_original, datetime_digitized) ==
    (IF software # <<>> THEN <<SoftwareWarning(software)>> ELSE <<>>)
        \o (IF datetime_original # datetime_digitized
            THEN <<MismatchWarning>> ELSE <<>>)

\* Lines 172-175
exif_warnings(software, datetime_original, datetime_digitized) ==
    (IF software # <<>> THEN <<SoftwareWarning(software)>> ELSE <<>>)
        \o (IF /\ datetime_original # <<>>
               /\ datetime_digitized # <<>>
               /\ datetime_original # datetime_digitized
            THEN <<MismatchWarning>> ELSE <<>>)

\* The except clause letting the exception through.
exif_except_raise(e) == Raise(e)

\* Lines 179-181: except Exception as e: return {"error": ...}
exif_except(e) == Return([error |-> <<"EXIF analysis failed: ">> \o e.msg])

\* Lines 164-178: the four fields in the order the dict literal evaluates
\* them; the first one that raises ends the try block.
exif_fields(exif_data) ==
    LET camera_model == tag_str(exif_data.zeroth, "Model")
        software == tag_str(exif_data.zeroth, "Software")
        datetime_original == tag_str(exif_data.Exif, "DateTimeOriginal")
        datetime_digitized == tag_str(exif_data.Exif, "DateTimeDigitized")
    IN  IF camera_model.kind = "raise" THEN exif_except(camera_model.exc)
        ELSE IF software.kind = "raise" THEN exif_except(software.exc)
        ELSE IF datetime_original.kind = "raise" THEN exif_except(datetime_original.exc)
        ELSE IF datetime_digitized.kind = "raise" THEN exif_except(datetime_digitized.exc)
        ELSE Return([camera_model |-> camera_model.value,
                     software |-> software.value,
                     datetime_original |-> datetime_original.value,
                     datetime_digitized |-> datetime_digitized.value,
                     warnings |-> exif_warnings(software.value,
                                                datetime_original.value,
                                                datetime_digitized.value)])

\* analyze_exif
analyze_exif(pil_image) ==
    IF ~pil_image.exif.present
    THEN Return([camera_model |-> <<>>,
                 software |-> <<>>,
                 datetime_original |-> <<>>,
                 datetime_digitized |-> <<>>,
                 warnings |-> <<NoExifWarning>>])
    ELSE LET exif_data == piexif_load(pil_image.exif)
         IN  IF exif_data.kind = "raise" THEN exif_except(exif_data.exc)
             ELSE exif_fields(exif_data.value)

\* ----------------------------------------------------------- dispatcher
\* AnalysisType, and the Literal of ImageRequest.analysis_type
AnalysisType == {"web_search", "classification", "exif"}

\* The keys of the analysis_methods dict
analysis_methods == {"web_search", "classification", "exif"}

\* Both remote strategies bound to the web-match probe.
method_for_pasted(analysis_type) ==
    IF analysis_type = "exif" THEN "analyze_exif" ELSE "process_web_detection"

\* analysis_methods[analysis_type]
method_for(analysis_type) ==
    IF analysis_type = "web_search" THEN "process_web_detection"
    ELSE IF analysis_type = "classification" THEN "classify_image"
    ELSE "analyze_exif"

\* The membership test left out.
unsupported_never(analysis_type) == FALSE

\* if analysis_type not in analysis_methods
unsupported(analysis_type) == analysis_type \notin analysis_methods

Pending == [kind |-> "pending"]

\* Lines 191-200 up to the first use of a service client: the log of the
\* methods entered, and how analyze ended if it has.  A strategy that needs a
\* client is left pending.  (A key the dict lacks is a KeyError.)
dispatch(analysis_type, validated) ==
    IF unsupported(analysis_type)
    THEN [log |-> <<>>,
          out |-> Raise(ValueError(<<"Invalid analysis type: ", analysis_type>>))]
    ELSE IF analysis_type \notin analysis_methods
    THEN [log |-> <<>>, out |-> Raise([type |-> "KeyError", msg |-> <<analysis_type>>])]
    ELSE IF method_for(analysis_type) = "analyze_exif"
    THEN [log |-> <<"analyze_exif">>, out |-> analyze_exif(validated.pil_image)]
    ELSE [log |-> <<method_for(analysis_type)>>, out |-> Pending]

\* Validation put off to the strategies that read the decoded image.
analyze_start_lazy(base64_content, analysis_type) ==
    LET v == validate_image(base64_content).out
    IN  IF analysis_type = "classification"
        THEN [log |-> <<"classify_image">>, out |-> Pending]
        ELSE IF v.kind = "raise" THEN [log |-> <<"validate_image">>, out |-> v]
        ELSE LET d == dispatch(analysis_type, v.value)
             IN  [log |-> <<"validate_image">> \o d.log, out |-> d.out]

\* analyze, lines 185-200, up to the first use of a service client: an
\* exception of validate_image leaves the try block at once.
analyze_start(base64_content, analysis_type) ==
    LET v == validate_image(base64_content).out
    IN  IF v.kind = "raise" THEN [log |-> <<"validate_image">>, out |-> v]
        ELSE LET d == dispatch(analysis_type, v.value)
             IN  [log |-> <<"validate_image">> \o d.log, out |-> d.out]

\* json.dumps of the result in JSONResponse(content=response): a prediction
\* that still holds a protobuf value is not serializable.
json_serializable(response) ==
    "predictions" \in DOMAIN response
        => \A i \in 1..Len(response.predictions) : response.predictions[i].extra = "plain"

NoResponse == [status_code |-> 0]

\* analyze_fraud, app.py lines 31-47: the response to how analyzer.analyze ended.
analyze_fraud(out) ==
    IF out.kind = "return"
    THEN IF json_serializable(out.value)
         THEN [status_code |-> HTTP_OK, content |-> out.value]
         ELSE [status_code |-> HTTP_SERVER_ERROR,
               detail |-> <<"An unexpected error occurred: ", "not JSON serializable">>]
    ELSE IF out.exc.type = "ValueError"
    THEN [status_code |-> HTTP_BAD_REQUEST, detail |-> out.exc.msg]
    ELSE [status_code |-> HTTP_SERVER_ERROR,
          detail |-> <<"An unexpected error occurred: ">> \o out.exc.msg]

\* One failed call made again.
call_events_retry(name, remote) ==
    IF remote.kind = "raise" THEN <<name, name>> ELSE <<name>>

\* Lines 88 and 123: the service call is made once, whatever its outcome.
call_events(name, remote) == <<name>>

\* --------------------------------------------------------- request threads
\* A step of a request thread is the code it runs up to and including one
\* access to the analyzer's shared client handles; the code between two such
\* accesses touches nothing another thread can see.
Requests == 1..NumRequests

Idle == [pc |-> "idle"]

NoCall == [pc |-> "none"]

InitAnalyzer ==
    /\ _vision_client = None
    /\ _vertex_client = None
    /\ constructed = [vision |-> {}, vertex |-> {}]
    /\ req = [r \in Requests |-> Idle]

Init ==
    /\ InitAnalyzer
    /\ call = NoCall

\* What a caller can pass as analysis_type: the three literals, and a value
\* outside them (which the endpoint's schema never lets through).
Directives == AnalysisType \cup {"thumbnail"}

Photo(exif) == [format |-> "ok", exif |-> exif]

BadExif == [present |-> TRUE, loadable |-> FALSE, zeroth |-> <<>>, Exif |-> <<>>]

\* The payloads requests carry: one per way validation fails, an image
\* without an EXIF block and an image whose EXIF block does not load.
Sources ==
    {Text(2, 0, 0, 0, Garbage),
     Text(LimitChars + 4, 0, 1, 0, Photo(NoExif)),
     Text(4, 0, 0, 0, Garbage),
     Text(4, 0, 1, 0, Photo(NoExif)),
     Text(8, 0, 0, 1, Photo(BadExif))}

Match(url) == [url |-> url]

WebDetection(full, partial) ==
    [full_matching_images |-> full, partial_matching_images |-> partial]

ApiError == [type |-> "GoogleAPICallError", msg |-> <<"503 service unavailable">>]

CredentialsError ==
    [type |-> "DefaultCredentialsError", msg |-> <<"credentials were not found">>]

\* How the web-detection call of a request can end.
WebOutcomes ==
    {Return(WebDetection(<<Match("u1")>>, <<>>)),
     Return(WebDetection(<<>>, <<Match("u2")>>)),
     Raise(ApiError)}

Prediction(extra) ==
    [confidences |-> Repeated(<<9>>), displayNames |-> Repeated(<<"fraud">>),
     ids |-> Repeated(<<"1">>), extra |-> extra]

PredictResponse(predictions) ==
    [deployed_model_id |-> "m1", model_version_id |-> "1",
     model_display_name |-> "fraud", predictions |-> predictions]

\* How the predict call of a request can end.
PredictOutcomes ==
    {Return(PredictResponse(<<Prediction("plain")>>)),
     Return(PredictResponse(<<Prediction("proto")>>)),
     Raise(ApiError)}

\* The endpoint's answer; a caller of analyzer.analyze itself gets none.
Respond(analysis_type, out) ==
    IF analysis_type \in AnalysisType THEN analyze_fraud(out) ELSE NoResponse

Done(q, log, remote, out) ==
    [q EXCEPT !.pc = "done", !.log = log, !.remote = remote, !.out = out,
              !.response = Respond(q.analysis_type, out)]

\* if not self._vision_client / if not self._vertex_client, lines 33 and 44
AfterGetter(method) ==
    IF method = "process_web_detection"
    THEN IF _vision_client = None THEN "vision_construct" ELSE "vision_call"
    ELSE IF _vertex_client = None THEN "vertex_construct" ELSE "vertex_call"

\* A request arrives: analyze validates and dispatches; the exif strategy and
\* every failure so far end the request, a remote strategy goes on to read
\* its client handle.
Start(r) ==
    /\ req[r].pc = "idle"
    /\ \E base64_content \in Sources, analysis_type \in Directives :
          LET a == analyze_start(base64_content, analysis_type)
              q == [pc |-> "start", source |-> base64_content,
                    analysis_type |-> analysis_type, log |-> <<>>,
                    remote |-> Pending, out |-> Pending, response |-> NoResponse]
          IN  req' = [req EXCEPT ![r] =
                        IF a.out.kind = "pending"
                        THEN [q EXCEPT !.pc = AfterGetter(a.log[Len(a.log)]),
                                       !.log = a.log]
                        ELSE Done(q, a.log, Pending, a.out)]
    /\ UNCHANGED <<_vision_client, _vertex_client, constructed, call>>

\* self._vision_client = vision.ImageAnnotatorClient(), lines 34-39: the
\* handle was seen empty.  A constructor that raises leaves it empty.
VisionConstruct(r) ==
    /\ req[r].pc = "vision_construct"
    /\ \/ /\ _vision_client' = r
          /\ constructed' = [constructed EXCEPT !.vision = @ \cup {r}]
          /\ req' = [req EXCEPT ![r].pc = "vision_call",
                                ![r].log = @ \o <<"ImageAnnotatorClient">>]
       \/ /\ req' = [req EXCEPT ![r] =
                        Done(@, @.log, Pending, web_except(CredentialsError))]
          /\ UNCHANGED <<_vision_client, constructed>>
    /\ UNCHANGED <<_vertex_client, call>>

\* self.vision_client.web_detection(image=image), line 88, and the rest of
\* process_web_detection and analyze.
VisionCall(r) ==
    /\ req[r].pc = "vision_call"
    /\ \E remote \in WebOutcomes :
          req' = [req EXCEPT ![r] =
                    Done(@, @.log \o call_events("web_detection", remote), remote,
                         process_web_detection(remote))]
    /\ UNCHANGED <<_vision_client, _vertex_client, constructed, call>>

\* self._vertex_client = aiplatform.gapic.PredictionServiceClient(...), lines 45-52
VertexConstruct(r) ==
    /\ req[r].pc = "vertex_construct"
    /\ \/ /\ _vertex_client' = r
          /\ constructed' = [constructed EXCEPT !.vertex = @ \cup {r}]
          /\ req' = [req EXCEPT ![r].pc = "vertex_call",
                                ![r].log = @ \o <<"PredictionServiceClient">>]
       \/ /\ req' = [req EXCEPT ![r] =
                        Done(@, @.log, Pending, classify_except(CredentialsError))]
          /\ UNCHANGED <<_vertex_client, constructed>>
    /\ UNCHANGED <<_vision_client, call>>

\* self.vertex_client.predict(...), line 123, and the rest of classify_image
\* and analyze.  (The handle is read a second time here; it is set by then
\* and is never reset.)
VertexCall(r) ==
    /\ req[r].pc = "vertex_call"
    /\ \E remote \in PredictOutcomes :
          req' = [req EXCEPT ![r] =
                    Done(@, @.log \o call_events("predict", remote), remote,
                         classify_image(remote))]
    /\ UNCHANGED <<_vision_client, _vertex_client, constructed, call>>

Progress(r) ==
    VisionConstruct(r) \/ VisionCall(r) \/ VertexConstruct(r) \/ VertexCall(r)

Next == \E r \in Requests : Start(r) \/ Progress(r)

Spec == Init /\ [][Next]_vars

\* A started thread keeps running and its service call returns or fails.
FairSpec == Spec /\ \A r \in Requests : WF_vars(Progress(r))

\* ------------------------------------------- validate_image on its own
PayloadLengths == (0..SmallChars) \cup ((LimitChars - Margin)..(LimitChars + Margin))

Formats == {"garbage", "broken", "ok"}

\* Bytes that decode to nothing, or fail to decode, are no image.
ValidateTexts ==
    {t \in {Text(c, p, nl, j, [format |-> f, exif |-> NoExif]) :
                c \in PayloadLengths, p \in 0..2, nl \in 0..1, j \in 0..1, f \in Formats} :
        LET dec == b64decode(t)
        IN  (dec.kind = "raise" \/ dec.value.size = 0) => t.content.format = "garbage"}

InitValidate ==
    /\ InitAnalyzer
    /\ \E t \in ValidateTexts : call = [pc |-> "called", op |-> "validate_image", arg |-> t]

CallValidate ==
    /\ call.pc = "called"
    /\ call.op = "validate_image"
    /\ call' = [call EXCEPT !.pc = "done"] @@ [res |-> validate_image(call.arg)]
    /\ UNCHANGED <<_vision_client, _vertex_client, constructed, req>>

NextValidate == CallValidate

SpecValidate == InitValidate /\ [][NextValidate]_vars

\* ---------------------------------------- process_web_detection on its own
Urls == {"u1", "u2", "u3"}

SeqsUpTo(S, n) == UNION {[1..k -> S] : k \in 0..n}

MatchLists == SeqsUpTo({Match(u) : u \in Urls}, MaxMatches)

WebDetections == {WebDetection(f, p) : f \in MatchLists, p \in MatchLists}

InitWeb ==
    /\ InitAnalyzer
    /\ \E remote \in {Return(w) : w \in WebDetections} \cup {Raise(ApiError)} :
          call = [pc |-> "called", op |-> "process_web_detection", arg |-> remote]

CallWeb ==
    /\ call.pc = "called"
    /\ call.op = "process_web_detection"
    /\ call' = [call EXCEPT !.pc = "done"] @@ [res |-> process_web_detection(call.arg)]
    /\ UNCHANGED <<_vision_client, _vertex_client, constructed, req>>

NextWeb == CallWeb

SpecWeb == InitWeb /\ [][NextWeb]_vars

\* ------------------------------------------------- analyze_exif on its own
ByteValues == {65, 255}

TagValues == {Bytes(b) : b \in SeqsUpTo(ByteValues, MaxTagLen)} \cup {NotBytes}

\* An IFD: some of the tags, each with a value.
Ifds(tags) == UNION {[present -> TagValues] : present \in SUBSET tags}

ExifBlocks ==
    {[present |-> TRUE, loadable |-> TRUE, zeroth |-> z, Exif |-> e] :
        z \in Ifds({"Model", "Software"}),
        e \in Ifds({"DateTimeOriginal", "DateTimeDigitized"})}
    \cup {BadExif, NoExif}

InitExif ==
    /\ InitAnalyzer
    /\ \E x \in ExifBlocks :
          call = [pc |-> "called", op |-> "analyze_exif", arg |-> Photo(x)]

CallExif ==
    /\ call.pc = "called"
    /\ call.op = "analyze_exif"
    /\ call' = [call EXCEPT !.pc = "done"] @@ [res |-> analyze_exif(call.arg)]
    /\ UNCHANGED <<_vision_client, _vertex_client, constructed, req>>

NextExif == CallExif

SpecExif == InitExif /\ [][NextExif]_vars

\* ------------------------------------------------------------- properties
Started == {r \in Requests : req[r].pc # "idle"}

Completed(q) == q.pc = "done" /\ q.out.kind = "return"
Failed(q) == q.pc = "done" /\ q.out.kind = "raise"

StrategyNames == {"process_web_detection", "classify_image", "analyze_exif"}
RemoteCallNames == {"web_detection", "predict"}

IsStrategy(x) == x \in StrategyNames
IsRemoteCall(x) == x \in RemoteCallNames

\* The strategies a request entered and the service calls it made, in order.
Strategies(q) == SelectSeq(q.log, IsStrategy)
RemoteCalls(q) == SelectSeq(q.log, IsRemoteCall)

\* The strategy each directive names.
Named(directive) ==
    IF directive = "web_search" THEN <<"process_web_detection">>
    ELSE IF directive = "classification" THEN <<"classify_image">>
    ELSE IF directive = "exif" THEN <<"analyze_exif">>
    ELSE <<>>

PassesValidation(q) == validate_image(q.source).out.kind = "return"

DecodedImage(q) == validate_image(q.source).out.value

Range(f) == {f[i] : i \in DOMAIN f}

\* C1: every request begins with validation, and one whose payload fails
\* validation ends Failed with the validation error, having entered no
\* strategy, constructed no client and made no service call, whatever its
\* directive is.
C1_ValidationFirstAndTerminal ==
    \A r \in Started :
        LET q == req[r]
        IN  /\ q.log[1] = "validate_image"
            /\ ~PassesValidation(q) =>
                  /\ Failed(q)
                  /\ q.out = validate_image(q.source).out
                  /\ q.log = <<"validate_image">>

C1_Witness ==
    \E r \in Started :
        /\ ~PassesValidation(req[r])
        /\ req[r].analysis_type = "classification"
        /\ Failed(req[r])
        /\ ErrorKind(req[r].out.exc) \in ValidationKinds

\* C2: a request that passed validation enters exactly the strategy its
\* directive names, and no other (none when the directive names none), and
\* what analyze returns, and the endpoint sends, is that strategy's result
\* for the request's own image or service response.
C2_OneNamedStrategyVerbatim ==
    \A r \in Started :
        LET q == req[r]
        IN  PassesValidation(q) =>
              /\ Strategies(q) = Named(q.analysis_type)
              /\ Completed(q) =>
                    /\ q.analysis_type = "web_search" =>
                          q.remote.kind = "return" /\ q.out.value = web_result(q.remote.value)
                    /\ q.analysis_type = "classification" =>
                          q.remote.kind = "return"
                              /\ q.out.value = classify_result(q.remote.value)
                    /\ q.analysis_type = "exif" =>
                          q.out = analyze_exif(DecodedImage(q).pil_image)
                    /\ q.response.status_code = HTTP_OK => q.response.content = q.out.value

C2_Witness ==
    \E r \in Started :
        /\ Completed(req[r])
        /\ req[r].analysis_type = "classification"
        /\ Strategies(req[r]) = <<"classify_image">>
        /\ req[r].response.status_code = HTTP_OK

\* C3 as claimed: a request with an unrecognised directive fails with
\* UnsupportedAnalysisType, whatever its payload, and enters no strategy and
\* makes no service call.
C3_UnsupportedWhateverPayload ==
    \A r \in Started :
        LET q == req[r]
        IN  q.analysis_type \notin AnalysisType =>
              /\ Failed(q)
              /\ ErrorKind(q.out.exc) = "UnsupportedAnalysisType"
              /\ Strategies(q) = <<>>
              /\ RemoteCalls(q) = <<>>

\* C3 as amended: a request with an unrecognised directive fails without
\* entering a strategy, constructing a client or making a service call; it
\* fails with UnsupportedAnalysisType when its payload passes validation, and
\* with the validation error when it does not.
C3_UnsupportedAfterValidation ==
    \A r \in Started :
        LET q == req[r]
        IN  q.analysis_type \notin AnalysisType =>
              /\ Failed(q)
              /\ q.log = <<"validate_image">>
              /\ PassesValidation(q) => ErrorKind(q.out.exc) = "UnsupportedAnalysisType"
              /\ ~PassesValidation(q) => ErrorKind(q.out.exc) \in ValidationKinds

C3_Witness ==
    \E r \in Started :
        /\ req[r].analysis_type \notin AnalysisType
        /\ PassesValidation(req[r])
        /\ Failed(req[r])
        /\ ErrorKind(req[r].out.exc) = "UnsupportedAnalysisType"

\* C4: a payload that decodes to more than MAX_IMAGE_SIZE bytes fails with
\* the size error, which is neither the decoding nor the format error, with
\* no image-library call made, whatever the bytes are; a payload of at most
\* MAX_IMAGE_SIZE bytes, exactly MAX_IMAGE_SIZE included, never fails with it.
C4_OversizeRejectedBeforeParsing ==
    call.pc = "done" =>
        LET dec == b64decode(Clean(call.arg))
            out == call.res.out
        IN  dec.kind = "return" =>
              /\ dec.value.size > MAX_IMAGE_SIZE =>
                    /\ out.kind = "raise"
                    /\ ErrorKind(out.exc) = "PayloadTooLarge"
                    /\ call.res.ops = <<>>
              /\ dec.value.size <= MAX_IMAGE_SIZE =>
                    (out.kind = "raise" => ErrorKind(out.exc) # "PayloadTooLarge")

C4_Witness ==
    /\ call.pc = "done"
    /\ call.arg.chars > LimitChars
    /\ call.arg.content.format = "ok"
    /\ call.res.out.kind = "raise"
    /\ ErrorKind(call.res.out.exc) = "PayloadTooLarge"

\* C5: is_fraud is true exactly when the full-match list is non-empty,
\* matching_images_count is the length of the full-match list, and neither
\* changes when the partial-match list is replaced by any other.
C5_FraudIffFullMatch ==
    (call.pc = "done" /\ call.arg.kind = "return") =>
        LET w == call.arg.value
            res == call.res.value
        IN  /\ call.res.kind = "return"
            /\ res.is_fraud = (w.full_matching_images # <<>>)
            /\ res.matching_images_count = Len(w.full_matching_images)
            /\ \A p \in MatchLists :
                  LET other == web_result(WebDetection(w.full_matching_images, p))
                  IN  /\ other.is_fraud = res.is_fraud
                      /\ other.matching_images_count = res.matching_images_count

C5_Witness ==
    /\ call.pc = "done"
    /\ call.arg.kind = "return"
    /\ call.arg.value.full_matching_images = <<>>
    /\ Len(call.arg.value.partial_matching_images) = MaxMatches
    /\ call.res.value.is_fraud = FALSE
    /\ call.res.value.matching_images_count = 0

\* Metadata extraction fails inside analyze_exif: the block does not load,
\* or a tag it reads is not a byte string.
ExtractionFails(pil_image) ==
    /\ pil_image.exif.present
    /\ \/ ~pil_image.exif.loadable
       \/ \E t \in DOMAIN pil_image.exif.zeroth : pil_image.exif.zeroth[t].type # "bytes"
       \/ \E t \in DOMAIN pil_image.exif.Exif : pil_image.exif.Exif[t].type # "bytes"

\* C6: a request with directive exif whose payload passes validation ends
\* Completed, never Failed, and is answered 200; when extraction fails
\* inside the inspector the mapping returned holds the error message and
\* nothing else.
C6_ExifNeverRaises ==
    \A r \in Started :
        LET q == req[r]
        IN  (q.analysis_type = "exif" /\ PassesValidation(q)) =>
              /\ Completed(q)
              /\ q.response.status_code = HTTP_OK
              /\ ExtractionFails(DecodedImage(q).pil_image) =>
                    /\ DOMAIN q.out.value = {"error"}
                    /\ q.out.value.error[1] = "EXIF analysis failed: "

C6_Witness ==
    \E r \in Started :
        /\ req[r].analysis_type = "exif"
        /\ PassesValidation(req[r])
        /\ ExtractionFails(DecodedImage(req[r]).pil_image)
        /\ Completed(req[r])
        /\ DOMAIN req[r].out.value = {"error"}

\* C7 as claimed: the endpoint answers with a client-error status only when
\* the request failed validation, and every other failure, a failed service
\* call among them, with a server-error status.
C7_ClientErrorOnlyForValidation ==
    \A r \in Started :
        LET q == req[r]
        IN  (q.pc = "done" /\ q.response.status_code # 0) =>
              /\ (q.response.status_code >= 400 /\ q.response.status_code < 500) =>
                    Failed(q) /\ ErrorKind(q.out.exc) \in ValidationKinds
              /\ (Failed(q) /\ ErrorKind(q.out.exc) \notin ValidationKinds) =>
                    q.response.status_code >= 500

C9_WarningsDetermined ==
    call.pc = "done" =>
        LET x == call.arg.exif
            res == call.res.value
            field(ifd, t) == IF t \in DOMAIN ifd THEN decode_ignore(ifd[t].v) ELSE <<>>
            count(w) == Cardinality({i \in DOMAIN res.warnings : res.warnings[i] = w})
        IN  /\ call.res.kind = "return"
            /\ ~x.present =>
                  res = [camera_model |-> <<>>, software |-> <<>>,
                         datetime_original |-> <<>>, datetime_digitized |-> <<>>,
                         warnings |-> <<NoExifWarning>>]
            /\ (x.present /\ "warnings" \in DOMAIN res) =>
                  /\ res.camera_model = field(x.zeroth, "Model")
                  /\ res.software = field(x.zeroth, "Software")
                  /\ res.datetime_original = field(x.Exif, "DateTimeOriginal")
                  /\ res.datetime_digitized = field(x.Exif, "DateTimeDigitized")
                  /\ count(SoftwareWarning(res.software)) =
                        (IF res.software # <<>> THEN 1 ELSE 0)
                  /\ count(MismatchWarning) =
                        (IF /\ res.datetime_original # <<>>
                            /\ res.datetime_digitized # <<>>
                            /\ res.datetime_original # res.datetime_digitized
                         THEN 1 ELSE 0)
                  /\ Range(res.warnings) \subseteq
                        {SoftwareWarning(res.software), MismatchWarning}
            /\ (x.present /\ ~ExtractionFails(call.arg)) => "warnings" \in DOMAIN res

C9_Witness ==
    /\ call.pc = "done"
    /\ call.arg.exif.present
    /\ "warnings" \in DOMAIN call.res.value
    /\ call.res.value.software # <<>>
    /\ call.res.value.datetime_original # <<>>
    /\ call.res.value.datetime_digitized = <<>>
    /\ call.res.value.warnings = <<SoftwareWarning(call.res.value.software)>>

\* The service calls of a request: at most one, of the service its directive
\* uses, none for exif; a request that returned a remote strategy's result
\* made exactly one; a request whose call failed is Failed with that one call.
OneRemoteCall(q) ==
    /\ Len(RemoteCalls(q)) <= 1
    /\ Range(RemoteCalls(q)) \subseteq
          (IF q.analysis_type = "web_search" THEN {"web_detection"}
           ELSE IF q.analysis_type = "classification" THEN {"predict"}
           ELSE {})
    /\ (Completed(q) /\ q.analysis_type \in {"web_search", "classification"}) =>
          Len(RemoteCalls(q)) = 1
    /\ q.remote.kind = "raise" => Failed(q) /\ Len(RemoteCalls(q)) = 1

\* C10: every request makes at most one service call (none for exif, a
\* web-detection call for web_search, a predict call for classification), a
\* failed call fails the request with no second call, and every request that
\* has started ends Completed or Failed.
C10_OneCallAndTermination ==
    /\ [](\A r \in Started : OneRemoteCall(req[r]))
    /\ \A r \in Requests :
          (req[r].pc # "idle") ~> (Completed(req[r]) \/ Failed(req[r]))

C10_Witness ==
    \E r \in Started :
        /\ req[r].analysis_type = "web_search"
        /\ req[r].remote.kind = "raise"
        /\ Failed(req[r])
        /\ RemoteCalls(req[r]) = <<"web_detection">>

====
